---- MODULE Spec2Model ----
(***************************************************************************)
(* A model of the AVL tree of src/avl_tree.cc.                             *)
(*                                                                         *)
(* The heap is a function from addresses to Node records, `alloc' is the   *)
(* set of addresses that are currently allocated, and `root' is the        *)
(* AVLTree::root pointer (Null = nullptr).  Every private member function  *)
(* is an operator over a machine record m that threads the heap through    *)
(* the call exactly in the order of the C++ statements:                    *)
(*   m.h     the heap            m.al    the allocated addresses           *)
(*   m.r     the returned pointer                                          *)
(*   m.rot   number of rotation calls made so far in this operation        *)
(*   m.sites number of nodes at which a rebalancing case fired             *)
(*   m.nw    addresses allocated by this operation                         *)
(*   m.fr    addresses freed by this operation                             *)
(*   m.fseq  the same addresses in the order in which they were freed      *)
(*   m.visits number of nodes on which insertNode, deleteNode,             *)
(*           searchNodeUtil or destroyRecursive was entered                *)
(*   m.loops number of iterations of minValueNode's loop                   *)
(*   m.caseok at every node where insertNode found |balance| > 1 the       *)
(*           balance was 2 or -2 and exactly one of its four conditions    *)
(*           was true                                                      *)
(*   m.br    the branches of deleteNode's removal step that were taken:    *)
(*           "leaf", "one" (one child), "two" (two children)               *)
(*   m.oom   input: operator new throws std::bad_alloc in this operation   *)
(*   m.exc   an exception is propagating (the remaining statements of      *)
(*           every frame are skipped)                                      *)
(*   m.fault undefined behaviour: a null or freed pointer was              *)
(*           dereferenced, or a cell was freed twice                       *)
(***************************************************************************)
EXTENDS Integers, FiniteSets, Sequences, TLC

\* Keys are the integers 1..MaxKey (the code's keys are int).
MaxKey == 4

\* Keys of the insert-only runs (SpecIns): 1..InsKeys.
InsKeys == 6
\* The run of SpecDeep: these keys, inserted in this order, build the
\* 12-node tree of height 5 without a rotation (it is the level order of the
\* sparsest AVL tree of that height); then up to MaxDeepRemoves keys are
\* removed.
DeepOrder == <<8, 5, 11, 3, 7, 10, 12, 2, 4, 6, 9, 1>>
MaxDeepRemoves == 2

Max2(a, b) == IF a > b THEN a ELSE b

Null == 0
KeyRange == 1..MaxKey
\* Enough heap cells for every key of any of the runs.
Addrs == 1..Max2(MaxKey, Max2(InsKeys, Len(DeepOrder)))
MinOf(s) == CHOOSE x \in s : \A y \in s : x <= y

\* The content of a cell that holds no live node.
FreeCell == [data |-> 0, left |-> Null, right |-> Null, height |-> 0]
\* Node(int val) : data(val), left(nullptr), right(nullptr), height(1)
NewNode(val) == [data |-> val, left |-> Null, right |-> Null, height |-> 1]

VARIABLES heap, alloc, root, fault,
          S,      \* reference set: keys inserted and not removed since
          op,     \* the last public operation
          ret,    \* the result of the last search
          exc,    \* the last operation ended with std::bad_alloc
          rot, sites, nw, fr, br,  \* what the last operation did (see above)
          fseq, visits, loops, caseok,
          phase,  \* "ins": built from the empty tree by inserts of distinct
                  \* keys only; "rem": such a build followed by removals of
                  \* present keys only; "mixed": anything else
          built   \* in phase "rem": the number of keys the build inserted

vars == <<heap, alloc, root, fault, S, op, ret, exc, rot, sites, nw, fr, br,
          fseq, visits, loops, caseok, phase, built>>

\* int height(Node *N)
height(h, N) == IF N = Null THEN 0 ELSE h[N].height

\* void updateHeight(Node* N)
updateHeight(h, N) ==
    IF N /= Null
    THEN [h EXCEPT ![N].height = 1 + Max2(height(h, h[N].left), height(h, h[N].right))]
    ELSE h

\* int getBalance(Node *N)
getBalance(h, N) ==
    IF N = Null THEN 0 ELSE height(h, h[N].left) - height(h, h[N].right)

\* A variant of rightRotate that recomputes the height of x before that of y.
rightRotateHeightOrder(m, y) ==
    IF y = Null \/ m.h[y].left = Null
    THEN [m EXCEPT !.fault = TRUE, !.r = Null]
    ELSE LET x  == m.h[y].left
             T2 == m.h[x].right
             h1 == [m.h EXCEPT ![x].right = y]
             h2 == [h1 EXCEPT ![y].left = T2]
             h3 == updateHeight(h2, x)
             h4 == updateHeight(h3, y)
         IN [m EXCEPT !.h = h4, !.r = x, !.rot = @ + 1]

\* Node *rightRotate(Node *y)
rightRotate(m, y) ==
    IF y = Null \/ m.h[y].left = Null
    THEN [m EXCEPT !.fault = TRUE, !.r = Null]
    ELSE LET x  == m.h[y].left
             T2 == m.h[x].right
             h1 == [m.h EXCEPT ![x].right = y]
             h2 == [h1 EXCEPT ![y].left = T2]
             h3 == updateHeight(h2, y)
             h4 == updateHeight(h3, x)
         IN [m EXCEPT !.h = h4, !.r = x, !.rot = @ + 1]

\* Node *leftRotate(Node *x)
leftRotate(m, x) ==
    IF x = Null \/ m.h[x].right = Null
    THEN [m EXCEPT !.fault = TRUE, !.r = Null]
    ELSE LET y  == m.h[x].right
             T2 == m.h[y].left
             h1 == [m.h EXCEPT ![y].left = x]
             h2 == [h1 EXCEPT ![x].right = T2]
             h3 == updateHeight(h2, x)
             h4 == updateHeight(h3, y)
         IN [m EXCEPT !.h = h4, !.r = y, !.rot = @ + 1]

\* A variant of the allocation that yields nullptr instead of throwing, as
\* new (std::nothrow) does, with no check by the caller.
newNodeNoThrow(m, key) ==
    IF m.oom \/ Addrs \ m.al = {}
    THEN [m EXCEPT !.r = Null]
    ELSE LET a == MinOf(Addrs \ m.al)
         IN [m EXCEPT !.h = [@ EXCEPT ![a] = NewNode(key)],
                      !.al = @ \cup {a}, !.nw = @ \cup {a}, !.r = a]

\* new Node(key): throws when memory is exhausted, else takes a free cell.
\* Which free cell is returned is not observable by the program; the model
\* takes the lowest one.
newNode(m, key) ==
    IF m.oom \/ Addrs \ m.al = {}
    THEN [m EXCEPT !.exc = TRUE, !.r = Null]
    ELSE LET a == MinOf(Addrs \ m.al)
         IN [m EXCEPT !.h = [@ EXCEPT ![a] = NewNode(key)],
                      !.al = @ \cup {a}, !.nw = @ \cup {a}, !.r = a]

\* A variant of the left-right case that skips the rotation of the child.
leftRightCaseSingle(m, node) == rightRotate(m, node)

\* A variant of the left-right case that rotates the child to the right.
leftRightCaseMirror(m, node) ==
    LET m1 == rightRotate(m, m.h[node].left)
    IN IF m1.fault THEN m1
       ELSE rightRotate([m1 EXCEPT !.h = [@ EXCEPT ![node].left = m1.r]], node)

\* node->left = leftRotate(node->left); return rightRotate(node);
leftRightCase(m, node) ==
    LET m1 == leftRotate(m, m.h[node].left)
    IN IF m1.fault THEN m1
       ELSE rightRotate([m1 EXCEPT !.h = [@ EXCEPT ![node].left = m1.r]], node)

\* node->right = rightRotate(node->right); return leftRotate(node);
rightLeftCase(m, node) ==
    LET m1 == rightRotate(m, m.h[node].right)
    IN IF m1.fault THEN m1
       ELSE leftRotate([m1 EXCEPT !.h = [@ EXCEPT ![node].right = m1.r]], node)

\* A variant of insertNode's tail that recomputes the height and never rotates.
insertRebalanceNone(m, node, key) ==
    [m EXCEPT !.h = updateHeight(m.h, node), !.r = node]

\* A variant of insertNode's tail that rotates as soon as the balance factor
\* is not zero.
insertRebalanceEager(m, node, key) ==
    LET h1 == updateHeight(m.h, node)
        balance == getBalance(h1, node)
        l == h1[node].left
        r == h1[node].right
        m1 == [m EXCEPT !.h = h1]
        ms == [m1 EXCEPT !.sites = @ + 1]
    IN IF balance > 0 /\ key < h1[l].data THEN rightRotate(ms, node)
       ELSE IF balance < 0 /\ key > h1[r].data THEN leftRotate(ms, node)
       ELSE IF balance > 0 /\ key > h1[l].data THEN leftRightCase(ms, node)
       ELSE IF balance < 0 /\ key < h1[r].data THEN rightLeftCase(ms, node)
       ELSE [m1 EXCEPT !.r = node]

\* The tail of insertNode: updateHeight(node) and the four cases.
insertRebalance(m, node, key) ==
    LET h1 == updateHeight(m.h, node)
        balance == getBalance(h1, node)
        l == h1[node].left
        r == h1[node].right
        c1 == balance > 1 /\ key < h1[l].data
        c2 == balance < -1 /\ key > h1[r].data
        c3 == balance > 1 /\ key > h1[l].data
        c4 == balance < -1 /\ key < h1[r].data
        ncases == Cardinality({i \in 1..4 : <<c1, c2, c3, c4>>[i]})
        ok == (balance > 1 \/ balance < -1) => (balance \in {2, -2} /\ ncases = 1)
        m1 == [m EXCEPT !.h = h1, !.caseok = @ /\ ok]
        ms == [m1 EXCEPT !.sites = @ + 1]
    IN IF (balance > 1 /\ l = Null) \/ (balance < -1 /\ r = Null)
         THEN \* node->left->data or node->right->data on an absent child
              [m EXCEPT !.h = h1, !.fault = TRUE, !.r = Null]
       ELSE IF c1 THEN rightRotate(ms, node)
       ELSE IF c2 THEN leftRotate(ms, node)
       ELSE IF c3 THEN leftRightCase(ms, node)
       ELSE IF c4 THEN rightLeftCase(ms, node)
       ELSE [m1 EXCEPT !.r = node]

RECURSIVE insertNodeDup(_, _, _)
\* A variant of insertNode that sends an equal key to the right subtree.
insertNodeDup(m, node, key) ==
    IF node = Null THEN newNode(m, key)
    ELSE IF key < m.h[node].data THEN
        LET m1 == insertNodeDup(m, m.h[node].left, key)
        IN IF m1.exc \/ m1.fault THEN m1
           ELSE insertRebalance([m1 EXCEPT !.h = [@ EXCEPT ![node].left = m1.r]], node, key)
    ELSE
        LET m1 == insertNodeDup(m, m.h[node].right, key)
        IN IF m1.exc \/ m1.fault THEN m1
           ELSE insertRebalance([m1 EXCEPT !.h = [@ EXCEPT ![node].right = m1.r]], node, key)

RECURSIVE insertNodeLeq(_, _, _)
\* A variant of insertNode that compares with <= and so descends to the left
\* for an equal key.
insertNodeLeq(m0, node, key) ==
    IF node = Null THEN newNode(m0, key)
    ELSE LET m == [m0 EXCEPT !.visits = @ + 1] IN
    IF key <= m.h[node].data THEN
        LET m1 == insertNodeLeq(m, m.h[node].left, key)
        IN IF m1.exc \/ m1.fault THEN m1
           ELSE insertRebalance([m1 EXCEPT !.h = [@ EXCEPT ![node].left = m1.r]], node, key)
    ELSE
        LET m1 == insertNodeLeq(m, m.h[node].right, key)
        IN IF m1.exc \/ m1.fault THEN m1
           ELSE insertRebalance([m1 EXCEPT !.h = [@ EXCEPT ![node].right = m1.r]], node, key)

RECURSIVE insertNode(_, _, _)
\* Node* insertNode(Node* node, int key)
insertNode(m0, node, key) ==
    IF node = Null THEN newNode(m0, key)
    ELSE LET m == [m0 EXCEPT !.visits = @ + 1] IN
    IF key < m.h[node].data THEN
        LET m1 == insertNode(m, m.h[node].left, key)
        IN IF m1.exc \/ m1.fault THEN m1
           ELSE insertRebalance([m1 EXCEPT !.h = [@ EXCEPT ![node].left = m1.r]], node, key)
    ELSE IF key > m.h[node].data THEN
        LET m1 == insertNode(m, m.h[node].right, key)
        IN IF m1.exc \/ m1.fault THEN m1
           ELSE insertRebalance([m1 EXCEPT !.h = [@ EXCEPT ![node].right = m1.r]], node, key)
    ELSE [m EXCEPT !.r = node]

\* A variant of minValueNode without the loop.
minValueNodeNoLoop(m, node) == [m EXCEPT !.r = node]

RECURSIVE minValueNode(_, _)
\* Node* minValueNode(Node* node)
minValueNode(m, node) ==
    IF node /= Null /\ m.h[node].left /= Null
    THEN minValueNode([m EXCEPT !.loops = @ + 1], m.h[node].left)
    ELSE [m EXCEPT !.r = node]

\* A variant without the delete: the cell stays allocated.
deleteCellLeak(m, temp) == m

\* delete temp
deleteCell(m, temp) ==
    IF temp \notin m.al THEN [m EXCEPT !.fault = TRUE]
    ELSE [m EXCEPT !.h = [@ EXCEPT ![temp] = FreeCell],
                   !.al = @ \ {temp}, !.fr = @ \cup {temp},
                   !.fseq = Append(@, temp)]

\* A variant of deleteNode's tail that recomputes the height and never rotates.
deleteRebalanceNone(m, rt) ==
    IF rt = Null THEN [m EXCEPT !.r = Null]
    ELSE [m EXCEPT !.h = updateHeight(m.h, rt), !.r = rt]

\* A variant of deleteNode's tail that rotates as soon as the balance factor
\* is not zero.
deleteRebalanceEager(m, rt) ==
    IF rt = Null THEN [m EXCEPT !.r = Null]
    ELSE
    LET m1 == [m EXCEPT !.h = updateHeight(m.h, rt)]
        balance == getBalance(m1.h, rt)
        ms == [m1 EXCEPT !.sites = @ + 1]
    IN IF balance > 0 /\ getBalance(m1.h, m1.h[rt].left) >= 0
         THEN rightRotate(ms, rt)
       ELSE IF balance > 0 /\ getBalance(m1.h, m1.h[rt].left) < 0
         THEN leftRightCase(ms, rt)
       ELSE IF balance < 0 /\ getBalance(m1.h, m1.h[rt].right) <= 0
         THEN leftRotate(ms, rt)
       ELSE IF balance < 0 /\ getBalance(m1.h, m1.h[rt].right) > 0
         THEN rightLeftCase(ms, rt)
       ELSE [m1 EXCEPT !.r = rt]

\* A variant of deleteNode's tail that stops rebalancing after the first
\* node at which a case fired.
deleteRebalanceOnce(m, rt) ==
    IF rt = Null THEN [m EXCEPT !.r = Null]
    ELSE
    LET m1 == [m EXCEPT !.h = updateHeight(m.h, rt)]
        balance == getBalance(m1.h, rt)
        ms == [m1 EXCEPT !.sites = @ + 1]
    IN IF m.sites > 0 THEN [m1 EXCEPT !.r = rt]
       ELSE IF balance > 1 /\ getBalance(m1.h, m1.h[rt].left) >= 0
         THEN rightRotate(ms, rt)
       ELSE IF balance > 1 /\ getBalance(m1.h, m1.h[rt].left) < 0
         THEN leftRightCase(ms, rt)
       ELSE IF balance < -1 /\ getBalance(m1.h, m1.h[rt].right) <= 0
         THEN leftRotate(ms, rt)
       ELSE IF balance < -1 /\ getBalance(m1.h, m1.h[rt].right) > 0
         THEN rightLeftCase(ms, rt)
       ELSE [m1 EXCEPT !.r = rt]

\* The tail of deleteNode: updateHeight(root) and the four cases.
deleteRebalance(m, rt) ==
    IF rt = Null THEN [m EXCEPT !.r = Null]
    ELSE
    LET m1 == [m EXCEPT !.h = updateHeight(m.h, rt)]
        balance == getBalance(m1.h, rt)
        ms == [m1 EXCEPT !.sites = @ + 1]
    IN IF balance > 1 /\ getBalance(m1.h, m1.h[rt].left) >= 0
         THEN rightRotate(ms, rt)
       ELSE IF balance > 1 /\ getBalance(m1.h, m1.h[rt].left) < 0
         THEN leftRightCase(ms, rt)
       ELSE IF balance < -1 /\ getBalance(m1.h, m1.h[rt].right) <= 0
         THEN leftRotate(ms, rt)
       ELSE IF balance < -1 /\ getBalance(m1.h, m1.h[rt].right) > 0
         THEN rightLeftCase(ms, rt)
       ELSE [m1 EXCEPT !.r = rt]

\* A variant of the splice that frees a leaf without clearing `root'.
spliceOutKeepRoot(m, rt) ==
    LET temp == IF m.h[rt].left /= Null THEN m.h[rt].left ELSE m.h[rt].right
    IN IF temp = Null
       THEN [deleteCell(m, rt) EXCEPT !.r = rt, !.br = @ \cup {"leaf"}]
       ELSE [deleteCell([m EXCEPT !.h = [@ EXCEPT ![rt] = m.h[temp]]], temp)
                EXCEPT !.r = rt, !.br = @ \cup {"one"}]

\* A variant of the splice that copies only the child's key into the node.
spliceOutDataOnly(m, rt) ==
    LET temp == IF m.h[rt].left /= Null THEN m.h[rt].left ELSE m.h[rt].right
    IN IF temp = Null
       THEN [deleteCell(m, rt) EXCEPT !.r = Null, !.br = @ \cup {"leaf"}]
       ELSE [deleteCell([m EXCEPT !.h = [@ EXCEPT ![rt].data = m.h[temp].data]], temp)
                EXCEPT !.r = rt, !.br = @ \cup {"one"}]

\* deleteNode, the node with at most one child; .r is the local `root'
\* after the step.
spliceOut(m, rt) ==
    LET temp == IF m.h[rt].left /= Null THEN m.h[rt].left ELSE m.h[rt].right
    IN IF temp = Null
       THEN \* temp = root; root = nullptr; delete temp;
            [deleteCell(m, rt) EXCEPT !.r = Null, !.br = @ \cup {"leaf"}]
       ELSE \* *root = *temp; delete temp;
            [deleteCell([m EXCEPT !.h = [@ EXCEPT ![rt] = m.h[temp]]], temp)
                EXCEPT !.r = rt, !.br = @ \cup {"one"}]

\* A variant of the key copy that takes the key of the right child instead
\* of the key of the node minValueNode returned.
copySuccessorRightChild(m, rt, temp) ==
    [m EXCEPT !.h = [@ EXCEPT ![rt].data = m.h[m.h[rt].right].data],
              !.br = @ \cup {"two"}]

\* deleteNode, the node with two children: root->data = temp->data
copySuccessor(m, rt, temp) ==
    [m EXCEPT !.h = [@ EXCEPT ![rt].data = m.h[temp].data], !.br = @ \cup {"two"}]

RECURSIVE deleteNode(_, _, _)
\* Node* deleteNode(Node* root, int key)
deleteNode(m0, rt, key) ==
    IF rt = Null THEN [m0 EXCEPT !.r = Null]
    ELSE LET m == [m0 EXCEPT !.visits = @ + 1] IN
    IF key < m.h[rt].data THEN
        LET m1 == deleteNode(m, m.h[rt].left, key)
        IN IF m1.fault THEN m1
           ELSE deleteRebalance([m1 EXCEPT !.h = [@ EXCEPT ![rt].left = m1.r]], rt)
    ELSE IF key > m.h[rt].data THEN
        LET m1 == deleteNode(m, m.h[rt].right, key)
        IN IF m1.fault THEN m1
           ELSE deleteRebalance([m1 EXCEPT !.h = [@ EXCEPT ![rt].right = m1.r]], rt)
    ELSE IF m.h[rt].left = Null \/ m.h[rt].right = Null THEN
        LET m1 == spliceOut(m, rt)
        IN deleteRebalance(m1, m1.r)
    ELSE
        LET mt == minValueNode(m, m.h[rt].right)
            temp == mt.r
            ma == copySuccessor(mt, rt, temp)
            m1 == deleteNode(ma, ma.h[rt].right, ma.h[temp].data)
        IN IF m1.fault THEN m1
           ELSE deleteRebalance([m1 EXCEPT !.h = [@ EXCEPT ![rt].right = m1.r]], rt)

RECURSIVE searchNodeUtilWrongWay(_, _, _)
\* A variant of searchNodeUtil that descends to the right for a smaller key.
searchNodeUtilWrongWay(m, node, key) ==
    IF node = Null \/ m.h[node].data = key THEN [m EXCEPT !.r = node]
    ELSE IF key < m.h[node].data THEN searchNodeUtilWrongWay(m, m.h[node].right, key)
    ELSE searchNodeUtilWrongWay(m, m.h[node].left, key)

\* A variant of searchNodeUtil that assigns (node->data = key) where the code
\* compares; a nonzero key makes the condition true.
searchNodeUtilAssign(m, node, key) ==
    IF node = Null THEN [m EXCEPT !.r = node]
    ELSE [m EXCEPT !.h = [@ EXCEPT ![node].data = key], !.r = node]

RECURSIVE searchNodeUtilExhaustive(_, _, _)
\* A variant of searchNodeUtil that ignores the order of the keys: it looks
\* into the left subtree and, when the key is not there, into the right one.
searchNodeUtilExhaustive(m0, node, key) ==
    IF node = Null THEN [m0 EXCEPT !.r = node]
    ELSE LET m == [m0 EXCEPT !.visits = @ + 1] IN
    IF m.h[node].data = key THEN [m EXCEPT !.r = node]
    ELSE LET m1 == searchNodeUtilExhaustive(m, m.h[node].left, key)
         IN IF m1.r /= Null THEN m1
            ELSE searchNodeUtilExhaustive(m1, m1.h[node].right, key)

RECURSIVE searchNodeUtil(_, _, _)
\* Node* searchNodeUtil(Node* node, int key)
searchNodeUtil(m0, node, key) ==
    IF node = Null THEN [m0 EXCEPT !.r = node]
    ELSE LET m == [m0 EXCEPT !.visits = @ + 1] IN
    IF m.h[node].data = key THEN [m EXCEPT !.r = node]
    ELSE IF key < m.h[node].data THEN searchNodeUtil(m, m.h[node].left, key)
    ELSE searchNodeUtil(m, m.h[node].right, key)

RECURSIVE destroyRecursiveEarlyDelete(_, _)
\* A variant of destroyRecursive that deletes the node before it descends
\* into the right subtree, so that node->right is read from a freed node.
destroyRecursiveEarlyDelete(m0, node) ==
    IF node = Null THEN m0
    ELSE IF node \notin m0.al THEN [m0 EXCEPT !.fault = TRUE]
    ELSE
    LET m  == [m0 EXCEPT !.visits = @ + 1]
        m1 == destroyRecursiveEarlyDelete(m, m.h[node].left)
        m2 == IF m1.fault THEN m1 ELSE deleteCell(m1, node)
    IN IF m2.fault \/ node \notin m2.al
       THEN [m2 EXCEPT !.fault = TRUE]
       ELSE destroyRecursiveEarlyDelete(m2, m2.h[node].right)

RECURSIVE destroyRecursive(_, _)
\* void destroyRecursive(Node* node)
destroyRecursive(m0, node) ==
    IF node = Null THEN m0
    ELSE IF node \notin m0.al THEN [m0 EXCEPT !.fault = TRUE]   \* node->left
    ELSE
    LET m  == [m0 EXCEPT !.visits = @ + 1]
        m1 == destroyRecursive(m, m.h[node].left)
    IN IF m1.fault \/ node \notin m1.al                         \* node->right
       THEN [m1 EXCEPT !.fault = TRUE]
       ELSE LET m2 == destroyRecursive(m1, m1.h[node].right)
            IN IF m2.fault THEN m2 ELSE deleteCell(m2, node)

\* The machine at the entry of a public operation.
Entry(oom) ==
    [h |-> heap, al |-> alloc, r |-> Null, rot |-> 0, sites |-> 0,
     nw |-> {}, fr |-> {}, br |-> {}, fseq |-> <<>>, visits |-> 0, loops |-> 0,
     caseok |-> TRUE, oom |-> oom, exc |-> FALSE, fault |-> FALSE]

\* bool search(int key), as a function of the current state
search(key) == searchNodeUtil(Entry(FALSE), root, key).r /= Null

EmptyHeap == [a \in Addrs |-> FreeCell]

\* AVLTree() : root(nullptr) {}
Init ==
    /\ heap = EmptyHeap /\ alloc = {} /\ root = Null /\ fault = FALSE
    /\ S = {} /\ op = "new" /\ ret = FALSE /\ exc = FALSE
    /\ rot = 0 /\ sites = 0 /\ nw = {} /\ fr = {} /\ br = {}
    /\ fseq = <<>> /\ visits = 0 /\ loops = 0 /\ caseok = TRUE
    /\ phase = "ins" /\ built = 0

Pristine == heap = EmptyHeap /\ alloc = {} /\ root = Null

Effects(m) ==
    /\ heap' = m.h /\ alloc' = m.al /\ fault' = m.fault
    /\ rot' = m.rot /\ sites' = m.sites /\ nw' = m.nw /\ fr' = m.fr
    /\ exc' = m.exc /\ br' = m.br
    /\ fseq' = m.fseq /\ visits' = m.visits /\ loops' = m.loops
    /\ caseok' = m.caseok

\* The object is usable: it was not destroyed and no undefined behaviour
\* has occurred.
Alive == ~fault /\ op /= "destroy"

\* void insert(int key) { root = insertNode(root, key); }
Insert(key, oom) ==
    /\ Alive
    /\ LET m == insertNode(Entry(oom), root, key)
       IN /\ Effects(m)
          /\ root' = IF m.exc \/ m.fault THEN root ELSE m.r
          /\ S' = IF m.exc \/ m.fault THEN S ELSE S \cup {key}
          /\ phase' = IF m.exc \/ m.fault \/ key \in S THEN "mixed"
                      ELSE IF Pristine \/ phase = "ins" THEN "ins"
                      ELSE "mixed"
    /\ op' = "insert" /\ ret' = FALSE /\ built' = 0

\* void remove(int key) { root = deleteNode(root, key); }
Remove(key) ==
    /\ Alive
    /\ LET m == deleteNode(Entry(FALSE), root, key)
       IN /\ Effects(m)
          /\ root' = IF m.fault THEN root ELSE m.r
          /\ S' = IF m.fault THEN S ELSE S \ {key}
          /\ phase' = IF m.fault \/ key \notin S \/ phase = "mixed" THEN "mixed"
                      ELSE "rem"
          /\ built' = IF m.fault \/ key \notin S \/ phase = "mixed" THEN 0
                      ELSE IF phase = "ins" THEN Cardinality(S)
                      ELSE built
    /\ op' = "remove" /\ ret' = FALSE

\* bool search(int key) { return searchNodeUtil(root, key) != nullptr; }
Search(key) ==
    /\ Alive
    /\ LET m == searchNodeUtil(Entry(FALSE), root, key)
       IN /\ Effects(m)
          /\ ret' = (m.r /= Null)
    /\ op' = "search"
    /\ UNCHANGED <<root, S, phase, built>>

\* ~AVLTree() { destroyRecursive(root); root = nullptr; }
Destroy ==
    /\ Alive
    /\ LET m == destroyRecursive(Entry(FALSE), root)
       IN Effects(m)
    /\ root' = Null
    /\ op' = "destroy" /\ ret' = FALSE
    /\ S' = {} /\ phase' = "mixed" /\ built' = 0

Next ==
    \/ \E key \in KeyRange, oom \in BOOLEAN : Insert(key, oom)
    \/ \E key \in KeyRange : Remove(key)
    \/ \E key \in KeyRange : Search(key)
    \/ Destroy

Spec == Init /\ [][Next]_vars

\* Insert-only runs over a larger key range.
InsNext == \E key \in 1..InsKeys : Insert(key, FALSE)

SpecIns == Init /\ [][InsNext]_vars

\* The deep run: insert DeepOrder key by key, then remove stored keys.
DeepKeys == {DeepOrder[i] : i \in 1..Len(DeepOrder)}

DeepInsert ==
    /\ phase = "ins" /\ Cardinality(S) < Len(DeepOrder)
    /\ Insert(DeepOrder[Cardinality(S) + 1], FALSE)

DeepRemove(key) ==
    /\ key \in S
    /\ Len(DeepOrder) - Cardinality(S) < MaxDeepRemoves
    /\ (phase = "rem" \/ S = DeepKeys)
    /\ Remove(key)

DeepNext == DeepInsert \/ \E key \in DeepKeys : DeepRemove(key)

SpecDeep == Init /\ [][DeepNext]_vars

----------------------------------------------------------------------------
(* The tree as a mathematical object, read off the heap.  The traversals   *)
(* carry a depth budget so that they are defined on any heap.              *)

Fuel == Cardinality(Addrs) + 1

RECURSIVE NodesOf(_, _, _)
\* the addresses of the subtree rooted at n
NodesOf(h, n, d) ==
    IF n = Null \/ d = 0 THEN {}
    ELSE {n} \cup NodesOf(h, h[n].left, d - 1) \cup NodesOf(h, h[n].right, d - 1)

RECURSIVE TrueHeight(_, _, _)
\* the height of the subtree rooted at n: absent = 0, leaf = 1
TrueHeight(h, n, d) ==
    IF n = Null \/ d = 0 THEN 0
    ELSE 1 + Max2(TrueHeight(h, h[n].left, d - 1), TrueHeight(h, h[n].right, d - 1))

RECURSIVE InOrder(_, _, _)
\* the keys of the subtree rooted at n, in in-order
InOrder(h, n, d) ==
    IF n = Null \/ d = 0 THEN <<>>
    ELSE InOrder(h, h[n].left, d - 1) \o <<h[n].data>> \o InOrder(h, h[n].right, d - 1)

Tree == NodesOf(heap, root, Fuel)
ProgramState == <<heap, alloc, root>>

\* C1: search(k) is true exactly for the keys of the reference set, for
\* every key of the range, after any sequence of inserts and removes.
MembershipCorrect == \A k \in KeyRange : search(k) <=> k \in S
MembershipWitness ==
    /\ op = "remove" /\ fr /= {} /\ S /= {} /\ S /= KeyRange
    /\ \E k \in KeyRange : search(k)
    /\ \E k \in KeyRange : ~search(k)

\* C2: after every insert or remove every node's subtrees differ in true
\* height by at most one.
AVLBalanced ==
    \A n \in Tree :
        TrueHeight(heap, heap[n].left, Fuel) - TrueHeight(heap, heap[n].right, Fuel)
            \in {-1, 0, 1}
AVLBalancedWitness == op = "remove" /\ rot >= 1 /\ Cardinality(Tree) >= 3

\* C3: the in-order traversal is strictly increasing after every insert or
\* remove, also after a two-children deletion.
BSTOrder ==
    LET seq == InOrder(heap, root, Fuel)
    IN \A i \in 1..Len(seq) : \A j \in 1..Len(seq) : i < j => seq[i] < seq[j]
BSTOrderWitness == op = "remove" /\ "two" \in br /\ Cardinality(Tree) >= 2

\* C4: every node's cached height is 1 + the larger of its children's
\* cached heights, and so equals the true height of its subtree.
HeightsCorrect ==
    \A n \in Tree :
        /\ heap[n].height
             = 1 + Max2(height(heap, heap[n].left), height(heap, heap[n].right))
        /\ heap[n].height = TrueHeight(heap, n, Fuel)
HeightsCorrectWitness == op = "remove" /\ "one" \in br /\ Cardinality(Tree) >= 3

\* C5: inserting a key that is already stored changes nothing: heap, root
\* and allocated cells stay as they are, no rotation, no allocation.
InsertPresentNoOp ==
    [][\A k \in KeyRange : \A oom \in BOOLEAN :
          (op' = "insert" /\ search(k) /\ Insert(k, oom)) =>
             /\ ProgramState' = ProgramState
             /\ rot' = 0 /\ nw' = {} /\ fr' = {} /\ ~exc' /\ ~fault']_vars
InsertPresentWitness ==
    op = "insert" /\ nw = {} /\ ~exc /\ phase = "mixed" /\ Cardinality(Tree) >= 3

\* C6: removing a key that is not stored changes nothing and signals no
\* error, on the empty tree too.
RemoveAbsentNoOp ==
    [][\A k \in KeyRange :
          (op' = "remove" /\ ~search(k) /\ Remove(k)) =>
             /\ ProgramState' = ProgramState
             /\ rot' = 0 /\ fr' = {} /\ nw' = {} /\ ~exc' /\ ~fault']_vars
RemoveAbsentWitness ==
    op = "remove" /\ fr = {} /\ br = {} /\ Cardinality(Tree) >= 3

\* C7: a build of N distinct keys followed by the removal of all N leaves
\* the root absent and search false for every key.
RoundTripEmpty ==
    (phase = "rem" /\ S = {}) =>
        /\ root = Null
        /\ \A k \in KeyRange : ~search(k)
RoundTripWitness == phase = "rem" /\ S = {} /\ built = MaxKey /\ op = "remove"

\* C8: search leaves the root and every node's key, children and cached
\* height unchanged.
SearchPure ==
    [][\A k \in KeyRange : Search(k) =>
          /\ ProgramState' = ProgramState
          /\ rot' = 0 /\ nw' = {} /\ fr' = {}]_vars
SearchPureWitness == op = "search" /\ ret /\ Cardinality(Tree) >= 3

\* C9: three distinct keys a < b < c inserted into the empty tree in any
\* order give root b with the leaves a and c, height 2, all three found.
MedianRoot ==
    (phase = "ins" /\ Cardinality(S) = 3) =>
        LET a == MinOf(S)
            c == CHOOSE x \in S : \A y \in S : y <= x
            b == CHOOSE x \in S : x /= a /\ x /= c
        IN /\ root /= Null
           /\ heap[root].data = b /\ heap[root].height = 2
           /\ heap[root].left /= Null /\ heap[root].right /= Null
           /\ heap[heap[root].left] = NewNode(a)
           /\ heap[heap[root].right] = NewNode(c)
           /\ \A k \in S : search(k)
MedianRootWitness == phase = "ins" /\ Cardinality(S) = 3 /\ rot = 2

RECURSIVE MinAVLNodes(_)
\* N(0) = 0, N(1) = 1, N(h) = N(h-1) + N(h-2) + 1
MinAVLNodes(hh) ==
    IF hh <= 0 THEN 0 ELSE IF hh = 1 THEN 1
    ELSE MinAVLNodes(hh - 1) + MinAVLNodes(hh - 2) + 1

\* C10: a tree of root height h holds at least N(h) keys.
LogHeight ==
    /\ Cardinality(Tree) >= MinAVLNodes(height(heap, root))
    /\ Cardinality(Tree) >= MinAVLNodes(TrueHeight(heap, root, Fuel))
LogHeightWitness ==
    height(heap, root) = 3 /\ Cardinality(Tree) = MinAVLNodes(3)

\* C11: destruction frees every node of the tree exactly once, children
\* before their parent, never touches a freed node, and leaves the root
\* absent with nothing allocated; on the empty tree it changes nothing.
DestroyReleasesAll ==
    [][Destroy =>
          /\ ~fault'
          /\ root' = Null /\ alloc' = {} /\ heap' = EmptyHeap
          /\ fr' = Tree /\ fr' = alloc
          /\ Len(fseq') = Cardinality(Tree)
          /\ \A i \in 1..Len(fseq') : \A j \in 1..Len(fseq') :
                (fseq'[i] \in {heap[fseq'[j]].left, heap[fseq'[j]].right}) => i < j
          /\ (root = Null => heap' = heap /\ fseq' = <<>>)]_vars
DestroyWitness == op = "destroy" /\ Len(fseq) = MaxKey /\ ~fault

\* C12: every operation runs to completion without undefined behaviour:
\* insert, remove (its nested removal of the successor included) and search
\* enter at most height-of-the-tree nodes, the successor loop makes fewer
\* iterations than the height, and destroy enters every node once.
BoundedDescent ==
    [][/\ op' \in {"insert", "remove", "search"}
          => (/\ ~fault'
              /\ visits' <= height(heap, root)
              /\ visits' <= TrueHeight(heap, root, Fuel)
              /\ loops' < Max2(height(heap, root), 1))
       /\ op' = "destroy"
          => (~fault' /\ visits' = Cardinality(Tree) /\ loops' = 0)]_vars
BoundedDescentWitness ==
    op = "remove" /\ "two" \in br /\ loops = 1 /\ visits = 3 /\ ~fault

\* C13: in every insert, at each node of the path where the recomputed
\* balance factor is outside -1..1 it is exactly 2 or -2 and exactly one of
\* the four rebalancing conditions is true, so a case always fires there.
InsertCasesExclusive == (op = "insert" /\ ~fault) => caseok
InsertCasesWitness ==
    op = "insert" /\ caseok /\ sites = 1 /\ rot = 2 /\ Cardinality(Tree) = 5

\* C14: a single insert applies a rebalancing case at no more than one node
\* of its path; every other node of the path is returned without rotation.
InsertOneSite == (op = "insert" /\ ~fault) => (sites <= 1 /\ rot <= 2)
InsertOneSiteWitness ==
    op = "insert" /\ sites = 1 /\ rot = 1 /\ visits = 3 /\ Cardinality(Tree) = 6

\* C15: a remove can rebalance at several levels.  In the deep run, removing
\* the largest key from the 12-node tree built by DeepOrder fires a
\* rebalancing case at two nodes of the path, and the result is balanced
\* with correct cached heights.
DeepVictim == CHOOSE x \in DeepKeys : \A y \in DeepKeys : y <= x
RemoveTwoSites ==
    (op = "remove" /\ fr /= {} /\ S = DeepKeys \ {DeepVictim}) =>
        (sites >= 2 /\ ~fault /\ AVLBalanced /\ HeightsCorrect /\ BSTOrder)
RemoveTwoSitesWitness ==
    /\ op = "remove" /\ S = DeepKeys \ {DeepVictim}
    /\ sites = 2 /\ rot >= 2 /\ AVLBalanced /\ Cardinality(Tree) = Len(DeepOrder) - 1

RECURSIVE Shape(_, _, _)
\* the subtree rooted at n as a value: keys, cached heights and structure
Shape(h, n, d) ==
    IF n = Null \/ d = 0 THEN <<>>
    ELSE <<Shape(h, h[n].left, d - 1), h[n].data, h[n].height,
           Shape(h, h[n].right, d - 1)>>

\* The splice of node t in machine m puts the surviving child's subtree (or
\* nothing) at t's position, frees exactly one node, and touches no other.
SpliceOK(m, t) ==
    LET c  == IF m.h[t].left /= Null THEN m.h[t].left ELSE m.h[t].right
        m1 == spliceOut(m, t)
    IN /\ ~m1.fault
       /\ Shape(m1.h, m1.r, Fuel) = Shape(m.h, c, Fuel)
       /\ (c = Null) = (m1.r = Null)
       /\ Cardinality(m1.fr) = 1 /\ m1.fr \subseteq {t, c}
       /\ m1.al = m.al \ m1.fr
       /\ NodesOf(m1.h, m1.r, Fuel) \subseteq m1.al
       /\ \A a \in Addrs \ {t, c} : m1.h[a] = m.h[a]

\* The machine and the node at which remove(key of n) reaches the splice:
\* n itself when n has at most one child, else n's in-order successor after
\* the successor's key was copied into n.
SpliceSite(n) ==
    IF heap[n].left = Null \/ heap[n].right = Null
    THEN [m |-> Entry(FALSE), t |-> n]
    ELSE LET mt == minValueNode(Entry(FALSE), heap[n].right)
         IN [m |-> copySuccessor(mt, n, mt.r), t |-> mt.r]

KeysUnder(h, n) == {h[a].data : a \in NodesOf(h, n, Fuel)}

\* The two-children step of deleteNode at node n of the current tree.
TwoChildrenOK(n) ==
    LET mt   == minValueNode(Entry(FALSE), heap[n].right)
        temp == mt.r
        succ == MinOf(KeysUnder(heap, heap[n].right))
        ma   == copySuccessor(mt, n, temp)
        m1   == deleteNode(ma, ma.h[n].right, ma.h[temp].data)
    IN /\ temp /= Null /\ temp \in NodesOf(heap, heap[n].right, Fuel)
       /\ heap[temp].data = succ
       /\ heap[temp].left = Null
       \* the node stays in place and takes the successor's key
       /\ ma.h = [heap EXCEPT ![n].data = succ]
       /\ ma.al = alloc /\ ma.fr = {}
       \* the nested removal is a splice of the successor: one node freed
       /\ ~m1.fault
       /\ Len(m1.fseq) = 1 /\ m1.fr \subseteq {temp, heap[temp].right}
       /\ m1.br \in {{"two", "leaf"}, {"two", "one"}}
       /\ m1.loops = mt.loops
       /\ KeysUnder(m1.h, m1.r) = KeysUnder(heap, heap[n].right) \ {succ}
       \* the left subtree is unchanged
       /\ m1.h[n].left = heap[n].left /\ m1.h[n].data = succ
       /\ Shape(m1.h, m1.h[n].left, Fuel) = Shape(heap, heap[n].left, Fuel)

\* C17: a remove that reaches a node with two children keeps the node, gives
\* it the smallest key of its right subtree, leaves its left subtree alone,
\* and removes that key from the right subtree by a splice of a node without
\* left child, freeing exactly one node.
TwoChildrenUsesSuccessor ==
    /\ \A n \in Tree :
          (heap[n].left /= Null /\ heap[n].right /= Null) => TwoChildrenOK(n)
    /\ (op = "remove" /\ "two" \in br) =>
          /\ Cardinality(fr) = 1 /\ Len(fseq) = 1
          /\ br \in {{"two", "leaf"}, {"two", "one"}}
TwoChildrenWitness ==
    op = "remove" /\ br = {"two", "one"} /\ Cardinality(fr) = 1 /\ ~fault

\* the child links of the tree that point to node n
LinksTo(n) ==
    {<<p, side>> \in Tree \X {"left", "right"} :
        (IF side = "left" THEN heap[p].left ELSE heap[p].right) = n}

\* C18: after every operation the allocated nodes are exactly the nodes
\* reachable from the root, each by exactly one path (one parent link, none
\* for the root), no link leads to a freed node, and there are as many
\* allocated nodes as keys in the set.
ExclusiveOwnership ==
    /\ alloc = Tree
    /\ Cardinality(alloc) = Cardinality(S)
    /\ \A n \in Tree :
          /\ {heap[n].left, heap[n].right} \subseteq alloc \cup {Null}
          /\ Cardinality(LinksTo(n)) = IF n = root THEN 0 ELSE 1
    /\ nw \subseteq alloc /\ fr \cap alloc = {}
OwnershipWitness ==
    op = "remove" /\ "one" \in br /\ Cardinality(alloc) = 3 /\ alloc = Tree

\* C19: no insert and no remove dereferences an absent node: rightRotate is
\* entered only with y->left present, leftRotate only with x->right present
\* (the inner rotations of the double cases included), and insertNode reads
\* node->left->data / node->right->data only of a present child.
NoAbsentDereference == ~fault
NoAbsentDereferenceWitness ==
    op = "remove" /\ rot = 2 /\ sites = 1 /\ ~fault /\ Cardinality(Tree) = 3

\* C20: when the allocation of the new node fails, insert ends with the
\* exception and the tree exactly as before the call: heap, allocated cells
\* and root unchanged, no rotation, nothing allocated or freed.  No other
\* step fails: an exception comes only out of an insert of a key that is not
\* stored.
AllocFailureAtomic ==
    [][/\ op' = "insert" =>
             \A k \in KeyRange :
                (~search(k) /\ Insert(k, TRUE)) =>
                   /\ exc' /\ ~fault'
                   /\ ProgramState' = ProgramState /\ S' = S
                   /\ rot' = 0 /\ sites' = 0 /\ nw' = {} /\ fr' = {}
       /\ exc' =>
             /\ op' = "insert" /\ nw' = {}
             /\ ProgramState' = ProgramState
             /\ \E k \in KeyRange : ~search(k) /\ Insert(k, TRUE)]_vars
AllocFailureWitness ==
    op = "insert" /\ exc /\ nw = {} /\ Cardinality(Tree) = 3 /\ visits = 2

====
